---- MODULE Spec2Model ----
(***************************************************************************)
(* lidlock (src/src/main.rs): a single-instance Windows agent that locks   *)
(* the workstation when the lid closes.  The model covers the Logger, the  *)
(* named-mutex singleton, the construction of the message-only window with *)
(* its two power-setting subscriptions, the GetMessageW loop and the       *)
(* window procedure, for several processes sharing one machine.            *)
(***************************************************************************)
EXTENDS Integers, Sequences, FiniteSets, TLC

(* ------------------------------------------------------------------ *)
(* Bounds of the model                                                  *)
(* ------------------------------------------------------------------ *)
\* processes started on the machine in one behaviour
NumProcs == 3
\* messages waiting in a thread's queue
MaxQueue == 2
\* the same, where several processes run side by side
MaxBacklog == 1
\* log calls made on the logger in the Logger specification
MaxLogCalls == 3
\* values of the wall clock
MaxClock == 1
\* messages posted to a thread whose history is kept
MaxPosted == 2
\* window procedure calls of a process whose history is kept
MaxCalls == 3

(* ------------------------------------------------------------------ *)
(* Program and platform constants                                       *)
(* ------------------------------------------------------------------ *)
APP_NAME == "lidlock"
SINGLETON_IDENTIFIER == "Global\\{3DA16D16-5F02-4CFD-8C43-11C31127889D}"
TIME_FORMAT == "%Y-%m-%d %H:%M:%S"
\* 0x0218
WM_POWERBROADCAST == 536
\* 0x8013
PBT_POWERSETTINGCHANGE == 32787
\* 0x0012
WM_QUIT == 18
\* 0x0400, a message kind the window procedure does not inspect
WM_USER == 1024
\* 0x0012, a power-broadcast subtype other than "setting changed"
PBT_APMRESUMEAUTOMATIC == 18
GUID_MONITOR_POWER_ON == "GUID_MONITOR_POWER_ON"
GUID_LIDSWITCH_STATE_CHANGE == "GUID_LIDSWITCH_STATE_CHANGE"
\* HRESULT_FROM_WIN32(ERROR_ALREADY_EXISTS), the code of the "already exists" error
E_ALREADY_EXISTS == "0x800700B7"
\* any other error, as windows::core::Error::from_win32() wraps it
E_WIN32 == "from_win32"

Procs == 1..NumProcs

\* Option<T>: None is the empty sequence, Some(x) the one-element sequence
None == <<>>
Some(x) == <<x>>

(* ------------------------------------------------------------------ *)
(* Logger (main.rs 18-47)                                               *)
(* ------------------------------------------------------------------ *)
TEMP_LOG == "%TEMP%\\lidlock.log"
USER_LOG == "user.log"
Paths == {TEMP_LOG, USER_LOG}

\* a log message: its text and, for the one formatted message, its argument
Text(t) == [text |-> t, arg |-> <<>>]

\* format!("[{}] {}\n", timestamp, message): the chunk one write_all sends
FormatLine(now, message) == [stamp |-> now, message |-> message, newline |-> TRUE]

\* The file system as the logger sees it: io.files[path] is a file (whether it
\* exists, and its content as the sequence of chunks written to it); io.ops
\* counts the filesystem operations performed (open, write, flush).
NoFiles == [p \in Paths |-> [exists |-> FALSE, content |-> <<>>]]

\* the file opened with truncate instead of append
Logger_new_Truncate(path, openOk, io) ==
    IF path = None
    THEN [file |-> None, io |-> io]
    ELSE IF openOk
         THEN [file |-> Some(path[1]),
               io |-> [files |-> [io.files EXCEPT ![path[1]] =
                                     [exists |-> TRUE, content |-> <<>>]],
                       ops |-> io.ops + 1]]
         ELSE [file |-> None, io |-> [io EXCEPT !.ops = @ + 1]]

\* Logger::new: None stays None; Some(path) is opened with write+create+append
\* and a failed open is swallowed by .ok(), leaving the logger without a file.
Logger_new(path, openOk, io) ==
    IF path = None
    THEN [file |-> None, io |-> io]
    ELSE IF openOk
         THEN [file |-> Some(path[1]),
               io |-> [files |-> [io.files EXCEPT ![path[1]].exists = TRUE],
                       ops |-> io.ops + 1]]
         ELSE [file |-> None, io |-> [io EXCEPT !.ops = @ + 1]]

\* a logger without a file falling back to the log file in the temp directory
Logger_log_Default(file, message, now, wr, io) ==
    LET path == IF file = None THEN "%TEMP%\\lidlock.log" ELSE file[1]
    IN [files |-> IF wr
                  THEN [io.files EXCEPT ![path] =
                           [exists |-> TRUE,
                            content |-> Append(@.content, FormatLine(now, message))]]
                  ELSE io.files,
        ops |-> io.ops + 2]

\* Logger::log on a logger whose file is `file`: nothing without a file;
\* otherwise one write_all of the formatted line at the end of the file
\* (append mode) and one flush, both results discarded.  wr is whether the
\* write succeeds.  (The mutex around the file is never poisoned: one thread.)
Logger_log(file, message, now, wr, io) ==
    IF file = None
    THEN io
    ELSE [files |-> IF wr
                    THEN [io.files EXCEPT ![file[1]].content =
                                              Append(@, FormatLine(now, message))]
                    ELSE io.files,
          ops |-> io.ops + 2]

\* consecutive log calls of one function, in order, every write succeeding
RECURSIVE LogAll(_, _, _, _)
LogAll(file, messages, now, io) ==
    IF messages = <<>>
    THEN io
    ELSE LogAll(file, Tail(messages), now,
                Logger_log(file, Head(messages), now, TRUE, io))

(* ------------------------------------------------------------------ *)
(* main: the log path (main.rs 217-232)                                 *)
(* ------------------------------------------------------------------ *)
\* std::env::args(): args[1] is the program name, args[2] the first argument
ArgLists == { <<APP_NAME>>, <<APP_NAME, "--debug">>, <<APP_NAME, USER_LOG>> }

\* log_path: the temp-dir file when any argument is "--debug", else the first
\* argument taken verbatim, else the empty string
log_path(args) ==
    IF \E i \in 1..Len(args) : args[i] = "--debug"
    THEN TEMP_LOG
    ELSE IF Len(args) >= 2 /\ args[2] # "--debug" THEN args[2] ELSE ""

\* if log_path.is_empty() { None } else { Some(log_path.as_str()) }
LoggerPath(args) == IF log_path(args) = "" THEN None ELSE Some(log_path(args))

(* ------------------------------------------------------------------ *)
(* Messages                                                             *)
(* ------------------------------------------------------------------ *)
Bytes == {0, 255}

\* POWERBROADCAST_SETTING: the notification class, the declared data length
\* and the data region, least significant byte first
Setting(guid, data) == [PowerSetting |-> guid, DataLength |-> 4, Data |-> data]

\* an LPARAM: the integer value and, when it is the address of a
\* POWERBROADCAST_SETTING, the structure it points to
LParam(addr, pointee) == [addr |-> addr, pointee |-> pointee]
PlainLParam(n) == LParam(n, None)
SettingLParam(guid, data) == LParam(4096, Some(Setting(guid, data)))

Message(h, m, w, l) == [hwnd |-> h, message |-> m, wParam |-> w, lParam |-> l]

IsSettingChange(m) ==
    m.message = WM_POWERBROADCAST /\ m.wParam = PBT_POWERSETTINGCHANGE
\* the 32-bit value in the first four bytes of the data region is 0
CarriesZero(m) ==
    /\ m.lParam.pointee # None
    /\ \A i \in 1..4 : m.lParam.pointee[1].Data[i] = 0

\* the state read as one byte, *(setting.Data.as_ptr()), instead of four
DecodeState_u8(setting) == [lo |-> setting.Data[1], hi |-> 0]

\* *(setting.Data.as_ptr() as *const u32): the first four bytes of the data
\* region read as an unsigned 32-bit value, kept as its two 16-bit halves
DecodeState(setting) ==
    [lo |-> setting.Data[1] + 256 * setting.Data[2],
     hi |-> setting.Data[3] + 256 * setting.Data[4]]

\* state == 0 on the 32-bit value
IsZero(state) == state.lo = 0 /\ state.hi = 0

\* LRESULT(0), the result returned for every power-broadcast message
LRESULT_HANDLED == 0

(* ------------------------------------------------------------------ *)
(* LidLockWindow::window_proc (main.rs 142-182)                         *)
(* ------------------------------------------------------------------ *)
\* The outcome of one call: the LRESULT returned, the calls made to
\* LockWorkStation (and their result), the arguments handed to
\* DefWindowProcW, the decoded state, whether GetSystemMetrics was asked for
\* the session type, the log calls made, and the file system afterwards.
\* env.remote: GetSystemMetrics(SM_REMOTESESSION) != 0 at this moment;
\* env.lockOk: what LockWorkStation returns; env.defRet: what DefWindowProcW
\* returns; env.now: the clock.
PowerSettingLogs(state, env) ==
    IF IsZero(state)
    THEN IF ~env.remote
         THEN << Text("Attempting to lock workstation"),
                 IF env.lockOk THEN Text("Workstation locked successfully")
                               ELSE Text("Failed to lock workstation") >>
         ELSE << Text("Ignoring, session is remote") >>
    ELSE << Text("Ignoring non-zero state") >>

\* the logger the callback logs to: let logger = Logger::new(None)
CallbackLogger(io) == Logger_new(None, TRUE, io)

\* the lock made for lid-switch notifications only
PowerSettingChange_LidOnly(m, env, file, io) ==
    LET state == DecodeState(m.lParam.pointee[1])
        lid == m.lParam.pointee[1].PowerSetting = GUID_LIDSWITCH_STATE_CHANGE
        logs == << Text("Received WM_POWERBROADCAST"),
                   Text("Received PBT_POWERSETTINGCHANGE"),
                   [text |-> "Power setting state: {}",
                    arg |-> <<state.hi, state.lo>>] >>
                \o (IF lid THEN PowerSettingLogs(state, env) ELSE <<>>)
        lock == lid /\ IsZero(state) /\ ~env.remote
    IN [ret |-> LRESULT_HANDLED,
        locks |-> IF lock THEN 1 ELSE 0,
        lockOk |-> lock /\ env.lockOk,
        def |-> None,
        decoded |-> Some(state),
        queried |-> lid /\ IsZero(state),
        logs |-> logs,
        io |-> LogAll(file, logs, env.now, io)]

\* lines 154-177: the power-broadcast arm for the "setting changed" subtype
PowerSettingChange(m, env, file, io) ==
    LET state == DecodeState(m.lParam.pointee[1])
        logs == << Text("Received WM_POWERBROADCAST"),
                   Text("Received PBT_POWERSETTINGCHANGE"),
                   [text |-> "Power setting state: {}",
                    arg |-> <<state.hi, state.lo>>] >>
                \o PowerSettingLogs(state, env)
        lock == IsZero(state) /\ ~env.remote
    IN [ret |-> LRESULT_HANDLED,
        locks |-> IF lock THEN 1 ELSE 0,
        lockOk |-> lock /\ env.lockOk,
        def |-> None,
        decoded |-> Some(state),
        queried |-> IsZero(state),
        logs |-> logs,
        io |-> LogAll(file, logs, env.now, io)]

\* a power broadcast of another subtype left to DefWindowProcW
OtherPowerBroadcast_Forward(m, env, file, io) ==
    [ret |-> env.defRet,
     locks |-> 0, lockOk |-> FALSE, def |-> Some(m),
     decoded |-> None, queried |-> FALSE,
     logs |-> << Text("Received WM_POWERBROADCAST") >>,
     io |-> LogAll(file, << Text("Received WM_POWERBROADCAST") >>, env.now, io)]

\* lines 151-153 and 178-181: the power-broadcast arm for any other subtype
OtherPowerBroadcast(m, env, file, io) ==
    LET logs == << Text("Received WM_POWERBROADCAST") >>
    IN [ret |-> LRESULT_HANDLED,
        locks |-> 0, lockOk |-> FALSE, def |-> None,
        decoded |-> None, queried |-> FALSE,
        logs |-> logs,
        io |-> LogAll(file, logs, env.now, io)]

\* the default arm answering "handled" itself instead of forwarding
DefaultArm_Swallow(m, env, file, io) ==
    [ret |-> LRESULT_HANDLED,
     locks |-> 0, lockOk |-> FALSE,
     def |-> None,
     decoded |-> None, queried |-> FALSE,
     logs |-> <<>>,
     io |-> io]

\* line 179: _ => return DefWindowProcW(hwnd, msg, wparam, lparam)
DefaultArm(m, env, file, io) ==
    [ret |-> env.defRet,
     locks |-> 0, lockOk |-> FALSE,
     def |-> Some(m),
     decoded |-> None, queried |-> FALSE,
     logs |-> <<>>,
     io |-> io]

window_proc(m, env, io) ==
    LET logger == CallbackLogger(io) IN
    IF m.message = WM_POWERBROADCAST
    THEN IF m.wParam = PBT_POWERSETTINGCHANGE
         THEN PowerSettingChange(m, env, logger.file, logger.io)
         ELSE OtherPowerBroadcast(m, env, logger.file, logger.io)
    ELSE DefaultArm(m, env, logger.file, logger.io)

(* ------------------------------------------------------------------ *)
(* SingletonHandle::new (main.rs 189-210)                               *)
(* ------------------------------------------------------------------ *)
\* the handle closed again when new returns (an owned handle dropped there)
SingletonHandle_new_Closed(p, holders, createOk) ==
    IF ~createOk
    THEN [result |-> "Err", error |-> E_WIN32, holders |-> holders]
    ELSE IF holders # {}
         THEN [result |-> "Err", error |-> E_ALREADY_EXISTS, holders |-> holders]
         ELSE [result |-> "Ok", error |-> "", holders |-> holders]

\* the GetLastError test left out
SingletonHandle_new_NoCheck(p, holders, createOk) ==
    IF ~createOk
    THEN [result |-> "Err", error |-> E_WIN32, holders |-> holders]
    ELSE [result |-> "Ok", error |-> "", holders |-> holders \cup {p}]

\* CreateMutexW on the named mutex, then the GetLastError test.  `holders` are
\* the processes with an open handle to the named mutex (the kernel object
\* exists while there is one); createOk is whether CreateMutexW returns a
\* handle.  The handle it returns is never closed by the program: it stays
\* open, on every path, until the process is torn down.
SingletonHandle_new(p, holders, createOk) ==
    IF ~createOk
    THEN [result |-> "Err", error |-> E_WIN32, holders |-> holders]
    ELSE IF holders # {}
         THEN [result |-> "Err", error |-> E_ALREADY_EXISTS,
               holders |-> holders \cup {p}]
         ELSE [result |-> "Ok", error |-> "",
               holders |-> holders \cup {p}]

(* ------------------------------------------------------------------ *)
(* LidLockWindow::register_notifications (main.rs 101-127)              *)
(* ------------------------------------------------------------------ *)
\* the result of the second registration not checked
register_notifications_Unchecked(reg1, reg2) ==
    IF ~reg1
    THEN [result |-> "Err", subs |-> {},
          calls |-> << "RegisterPowerSettingNotification(GUID_MONITOR_POWER_ON)" >>,
          logs |-> << Text("Registering power notifications"),
                      Text("Failed to register GUID_MONITOR_POWER_ON notification") >>]
    ELSE [result |-> "Ok",
          subs |-> {GUID_MONITOR_POWER_ON}
                   \cup (IF reg2 THEN {GUID_LIDSWITCH_STATE_CHANGE} ELSE {}),
          calls |-> << "RegisterPowerSettingNotification(GUID_MONITOR_POWER_ON)",
                       "RegisterPowerSettingNotification(GUID_LIDSWITCH_STATE_CHANGE)" >>,
          logs |-> << Text("Registering power notifications") >>]

\* reg1, reg2: whether RegisterPowerSettingNotification succeeds for the
\* monitor-power and the lid-switch class.  A failed first registration
\* returns before the second is attempted.
register_notifications(reg1, reg2) ==
    IF ~reg1
    THEN [result |-> "Err", subs |-> {},
          calls |-> << "RegisterPowerSettingNotification(GUID_MONITOR_POWER_ON)" >>,
          logs |-> << Text("Registering power notifications"),
                      Text("Failed to register GUID_MONITOR_POWER_ON notification") >>]
    ELSE IF ~reg2
    THEN [result |-> "Err", subs |-> {GUID_MONITOR_POWER_ON},
          calls |-> << "RegisterPowerSettingNotification(GUID_MONITOR_POWER_ON)",
                       "RegisterPowerSettingNotification(GUID_LIDSWITCH_STATE_CHANGE)" >>,
          logs |-> << Text("Registering power notifications"),
                      Text("Failed to register GUID_LIDSWITCH_STATE_CHANGE notification") >>]
    ELSE [result |-> "Ok",
          subs |-> {GUID_MONITOR_POWER_ON, GUID_LIDSWITCH_STATE_CHANGE},
          calls |-> << "RegisterPowerSettingNotification(GUID_MONITOR_POWER_ON)",
                       "RegisterPowerSettingNotification(GUID_LIDSWITCH_STATE_CHANGE)" >>,
          logs |-> << Text("Registering power notifications") >>]

(* ------------------------------------------------------------------ *)
(* LidLockWindow::new (main.rs 55-99)                                   *)
(* ------------------------------------------------------------------ *)
\* os.module: GetModuleHandleW succeeds; os.class: RegisterClassExW returns
\* an atom; os.className: the name RegisterClassExW reads through
\* lpszClassName (the buffer wide_string built for it is freed at the end of
\* the statement that builds wc, before the call, so the name read is the
\* application name or whatever the freed memory holds); os.window:
\* CreateWindowExW succeeds when the class it names is registered; os.reg1,
\* os.reg2: the two subscriptions.
DANGLING == "<freed memory>"

\* the result of RegisterClassExW not checked
LidLockWindow_new_Ungated(os) ==
    IF ~os.module
    THEN [result |-> "Err", classes |-> {}, window |-> FALSE, subs |-> {},
          calls |-> << "GetModuleHandleW" >>,
          logs |-> << Text("Creating LidLockWindow") >>]
    ELSE IF ~(os.class /\ os.window /\ os.className = APP_NAME)
    THEN [result |-> "Err",
          classes |-> IF os.class THEN {os.className} ELSE {},
          window |-> FALSE, subs |-> {},
          calls |-> << "GetModuleHandleW", "RegisterClassExW", "CreateWindowExW" >>,
          logs |-> << Text("Creating LidLockWindow"),
                      Text("Registering window class"),
                      Text("Creating window") >>]
    ELSE LET reg == register_notifications(os.reg1, os.reg2)
         IN [result |-> reg.result, classes |-> {os.className}, window |-> TRUE,
             subs |-> reg.subs,
             calls |-> << "GetModuleHandleW", "RegisterClassExW", "CreateWindowExW" >>
                       \o reg.calls,
             logs |-> << Text("Creating LidLockWindow"),
                         Text("Registering window class"),
                         Text("Creating window") >> \o reg.logs]

LidLockWindow_new(os) ==
    IF ~os.module
    THEN [result |-> "Err", classes |-> {}, window |-> FALSE, subs |-> {},
          calls |-> << "GetModuleHandleW" >>,
          logs |-> << Text("Creating LidLockWindow") >>]
    ELSE IF ~os.class
    THEN [result |-> "Err", classes |-> {}, window |-> FALSE, subs |-> {},
          calls |-> << "GetModuleHandleW", "RegisterClassExW" >>,
          logs |-> << Text("Creating LidLockWindow"),
                      Text("Registering window class") >>]
    ELSE IF ~(os.window /\ os.className = APP_NAME)
    THEN [result |-> "Err", classes |-> {os.className}, window |-> FALSE,
          subs |-> {},
          calls |-> << "GetModuleHandleW", "RegisterClassExW", "CreateWindowExW" >>,
          logs |-> << Text("Creating LidLockWindow"),
                      Text("Registering window class"),
                      Text("Creating window") >>]
    ELSE LET reg == register_notifications(os.reg1, os.reg2)
         IN [result |-> reg.result, classes |-> {os.className}, window |-> TRUE,
             subs |-> reg.subs,
             calls |-> << "GetModuleHandleW", "RegisterClassExW", "CreateWindowExW" >>
                       \o reg.calls,
             logs |-> << Text("Creating LidLockWindow"),
                         Text("Registering window class"),
                         Text("Creating window") >> \o reg.logs]

(* ------------------------------------------------------------------ *)
(* State                                                                *)
(* ------------------------------------------------------------------ *)
VARIABLES
    pc,            \* where each process is in main
    logger,        \* main's Logger: its file (None or Some(path))
    fs,            \* the files of the machine
    clock,         \* the wall clock chrono::Local::now() reads
    mutexHandles,  \* the processes holding a handle to the named mutex
    singleton,     \* whether main's _singleton holds a SingletonHandle
    classes,       \* the window classes registered in each process
    hwnd,          \* LidLockWindow.hwnd: 0, or the handle of the window
    subs,          \* the notification classes each window is registered for
    queue,         \* the message queue of each process's thread
    msg,           \* run's local MSG: the message GetMessageW last stored
    remote,        \* whether the session is a remote session
    exitCode,      \* how each process ended
    error,         \* the error main returned
    calls,         \* the platform calls each process made, in order
    cb,            \* the outcome of the last window_proc call in each process
    lg,            \* the logger exercised on its own (Logger specification)
    atOpen,        \* the files as that logger's construction found them
    tracing,       \* whether the history below is kept in this behaviour
    hist           \* per process: the messages posted to its thread and the
                   \* window procedure calls made in it, in order, and
                   \* whether its CreateMutexW call found the mutex existing
                   \* with no process alive that had acquired the singleton

vars == << pc, logger, fs, clock, mutexHandles, singleton, classes, hwnd, subs,
           queue, msg, remote, exitCode, error, calls, cb, lg, atOpen,
           tracing, hist >>

\* MSG::default()
MSG_default == Message(0, 0, 0, PlainLParam(0))

\* no message posted yet, no window procedure call made yet, CreateMutexW
\* not called yet
HistInit == [posted |-> <<>>, called |-> <<>>, orphan |-> FALSE]

lgInit == [built |-> FALSE, path |-> None, file |-> None, made |-> <<>>, ops |-> 0]

Init ==
    /\ pc = [p \in Procs |-> "idle"]
    /\ logger = [p \in Procs |-> None]
    /\ fs = NoFiles
    /\ clock = 0
    /\ mutexHandles = {}
    /\ singleton = [p \in Procs |-> FALSE]
    /\ classes = [p \in Procs |-> {}]
    /\ hwnd = [p \in Procs |-> 0]
    /\ subs = [p \in Procs |-> {}]
    /\ queue = [p \in Procs |-> <<>>]
    /\ msg = [p \in Procs |-> MSG_default]
    /\ remote \in BOOLEAN
    /\ exitCode = [p \in Procs |-> "none"]
    /\ error = [p \in Procs |-> ""]
    /\ calls = [p \in Procs |-> <<>>]
    /\ cb = [p \in Procs |-> None]
    /\ lg = lgInit
    /\ atOpen = NoFiles
    /\ tracing = FALSE
    /\ hist = [p \in Procs |-> HistInit]

Alive(p) == pc[p] \in {"singleton", "window", "run", "loop"}

unitVars == << lg, atOpen, clock >>
histVars == << tracing, hist >>

(* ------------------------------------------------------------------ *)
(* main (main.rs 216-239), one action per step                          *)
(* ------------------------------------------------------------------ *)
\* main's error dropped: the process ends with status 0 whatever happened
ExitStatus_Zero(result) == "0"

\* fn main() -> windows::core::Result<()>: the exit status of the process is
\* 0 when main returns Ok(()) and 1 when it returns an error
ExitStatus(result) == IF result = "Ok" THEN "0" ELSE "1"

\* lines 217-233: a process starts, builds its logger and logs the start
main_start(p, args, openOk) ==
    /\ pc[p] = "idle"
    /\ LET l == Logger_new(LoggerPath(args), openOk, [files |-> fs, ops |-> 0])
           io == LogAll(l.file, << Text("Main started") >>, clock, l.io)
       IN /\ logger' = [logger EXCEPT ![p] = l.file]
          /\ fs' = io.files
    /\ pc' = [pc EXCEPT ![p] = "singleton"]
    /\ UNCHANGED << mutexHandles, singleton, classes, hwnd, subs, queue, msg,
                    remote, exitCode, error, calls, cb, unitVars, histVars >>

\* line 235: let _singleton = SingletonHandle::new()?;
main_singleton(p, createOk) ==
    /\ pc[p] = "singleton"
    /\ LET r == SingletonHandle_new(p, mutexHandles, createOk)
       IN /\ mutexHandles' = r.holders
          /\ singleton' = [singleton EXCEPT ![p] = (r.result = "Ok")]
          /\ error' = [error EXCEPT ![p] = r.error]
          /\ pc' = [pc EXCEPT ![p] = IF r.result = "Ok" THEN "window" ELSE "returned"]
          /\ exitCode' = [exitCode EXCEPT ![p] = IF r.result = "Ok" THEN "none"
                                                ELSE ExitStatus(r.result)]
    /\ calls' = [calls EXCEPT ![p] = Append(@, "CreateMutexW")]
    /\ hist' = [hist EXCEPT ![p].orphan =
                    /\ createOk /\ mutexHandles \ {p} # {}
                    /\ \A q \in Procs \ {p} : ~singleton[q]]
    /\ UNCHANGED << logger, fs, classes, hwnd, subs, queue, msg, remote, cb,
                    unitVars, tracing >>

OsOutcomes ==
    [module : BOOLEAN, class : BOOLEAN, className : {APP_NAME, DANGLING},
     window : BOOLEAN, reg1 : BOOLEAN, reg2 : BOOLEAN]

\* line 237: let window = LidLockWindow::new(logger)?;
\* (the messages the platform sends to the window procedure while
\* CreateWindowExW runs are no power broadcasts: they take the default arm)
main_window(p, os) ==
    /\ pc[p] = "window"
    /\ LET r == LidLockWindow_new(os)
           io == LogAll(logger[p], r.logs, clock, [files |-> fs, ops |-> 0])
       IN /\ classes' = [classes EXCEPT ![p] = r.classes]
          /\ hwnd' = [hwnd EXCEPT ![p] = IF r.window THEN p ELSE 0]
          /\ subs' = [subs EXCEPT ![p] = r.subs]
          /\ calls' = [calls EXCEPT ![p] = @ \o r.calls]
          /\ fs' = io.files
          /\ pc' = [pc EXCEPT ![p] = IF r.result = "Ok" THEN "run" ELSE "returned"]
          /\ exitCode' = [exitCode EXCEPT ![p] = IF r.result = "Ok" THEN "none"
                                                ELSE ExitStatus(r.result)]
          /\ error' = [error EXCEPT ![p] = IF r.result = "Ok" THEN "" ELSE E_WIN32]
    /\ UNCHANGED << logger, mutexHandles, singleton, queue, msg, remote, cb,
                    unitVars, histVars >>

(* ------------------------------------------------------------------ *)
(* LidLockWindow::run (main.rs 129-140)                                 *)
(* ------------------------------------------------------------------ *)
\* lines 130-134: the log line, the MSG local, the first GetMessageW call
run_enter(p) ==
    /\ pc[p] = "run"
    /\ fs' = LogAll(logger[p], << Text("Starting message loop") >>, clock,
                    [files |-> fs, ops |-> 0]).files
    /\ msg' = [msg EXCEPT ![p] = MSG_default]
    /\ calls' = [calls EXCEPT ![p] = Append(@, "GetMessageW")]
    /\ pc' = [pc EXCEPT ![p] = "loop"]
    /\ UNCHANGED << logger, mutexHandles, singleton, classes, hwnd, subs, queue,
                    remote, exitCode, error, cb, unitVars, histVars >>

\* what is kept of one window_proc call: the message, the session type and
\* the result DefWindowProcW had to give at that moment, and the call's
\* outcome; ops counts the filesystem operations the call performed
Outcome(m, env, r) ==
    [msg |-> m, remote |-> env.remote,
     defResult |-> IF r.def # None THEN Some(env.defRet) ELSE None,
     ret |-> r.ret, locks |-> r.locks, lockOk |-> r.lockOk,
     def |-> r.def, decoded |-> r.decoded, queried |-> r.queried,
     logs |-> r.logs, ops |-> r.io.ops]

\* the session type read once and kept: every call sees the session type
\* the first call saw
Env_Cached(lockOk, defRet) ==
    LET seen == {q \in Procs : cb[q] # None}
    IN [remote |-> IF seen # {} THEN cb[CHOOSE q \in seen : TRUE][1].remote
                   ELSE remote,
        lockOk |-> lockOk, defRet |-> defRet, now |-> clock]

\* what window_proc is called with besides the message
Env(lockOk, defRet) ==
    [remote |-> remote, lockOk |-> lockOk, defRet |-> defRet, now |-> clock]

\* the history with one more window procedure call: the message, the session
\* type at that moment, the calls made to LockWorkStation and their result
Record(h, m, env, r) ==
    [h EXCEPT !.called = Append(@, [msg |-> m, remote |-> env.remote,
                                    locks |-> r.locks, lockOk |-> r.lockOk])]

\* a window procedure that remembers it has locked: after a call that locked
\* the workstation the next call does not lock again
DispatchMessageW_Dedup(p, m, lockOk, defRet) ==
    IF m.hwnd # 0 /\ m.hwnd = hwnd[p]
    THEN LET seen == cb[p] # None /\ cb[p][1].locks = 1
             r == window_proc(m, [Env(lockOk, defRet) EXCEPT !.remote = @ \/ seen],
                              [files |-> fs, ops |-> 0])
         IN /\ tracing => Len(hist[p].called) < MaxCalls
            /\ cb' = [cb EXCEPT ![p] = Some(Outcome(m, Env(lockOk, defRet), r))]
            /\ fs' = r.io.files
            /\ hist' = IF tracing
                       THEN [hist EXCEPT ![p] = Record(@, m, Env(lockOk, defRet), r)]
                       ELSE hist
    ELSE UNCHANGED << cb, fs, hist >>

\* DispatchMessageW(&msg): the window procedure of the window msg.hwnd names
\* runs to completion; a message with no window is not dispatched.
DispatchMessageW(p, m, lockOk, defRet) ==
    IF m.hwnd # 0 /\ m.hwnd = hwnd[p]
    THEN LET r == window_proc(m, Env(lockOk, defRet), [files |-> fs, ops |-> 0])
         IN /\ tracing => Len(hist[p].called) < MaxCalls
            /\ cb' = [cb EXCEPT ![p] = Some(Outcome(m, Env(lockOk, defRet), r))]
            /\ fs' = r.io.files
            /\ hist' = IF tracing
                       THEN [hist EXCEPT ![p] = Record(@, m, Env(lockOk, defRet), r)]
                       ELSE hist
    ELSE UNCHANGED << cb, fs, hist >>

\* a failed LockWorkStation call ending the loop: main returns its error
run_dispatch_Fatal(p, lockOk, defRet) ==
    /\ pc[p] = "loop"
    /\ queue[p] # <<>>
    /\ Head(queue[p]).message # WM_QUIT
    /\ msg' = [msg EXCEPT ![p] = Head(queue[p])]
    /\ queue' = [queue EXCEPT ![p] = Tail(@)]
    /\ DispatchMessageW(p, Head(queue[p]), lockOk, defRet)
    /\ LET failed == cb'[p] # None /\ cb'[p][1].locks > 0 /\ ~cb'[p][1].lockOk
       IN /\ pc' = [pc EXCEPT ![p] = IF failed THEN "returned" ELSE @]
          /\ exitCode' = [exitCode EXCEPT ![p] = IF failed THEN "1" ELSE @]
          /\ error' = [error EXCEPT ![p] = IF failed THEN E_WIN32 ELSE @]
    /\ UNCHANGED << logger, mutexHandles, singleton, classes, hwnd, subs,
                    remote, calls, unitVars, tracing >>

\* one iteration: GetMessageW stores the next message (> 0), then
\* TranslateMessage and DispatchMessageW
run_dispatch(p, lockOk, defRet) ==
    /\ pc[p] = "loop"
    /\ queue[p] # <<>>
    /\ Head(queue[p]).message # WM_QUIT
    /\ msg' = [msg EXCEPT ![p] = Head(queue[p])]
    /\ queue' = [queue EXCEPT ![p] = Tail(@)]
    /\ DispatchMessageW(p, Head(queue[p]), lockOk, defRet)
    /\ UNCHANGED << pc, logger, mutexHandles, singleton, classes, hwnd, subs,
                    remote, exitCode, error, calls, unitVars, tracing >>

\* GetMessageW's -1 taken as the end of the loop: run returns the error
run_error_Break(p, lockOk, defRet) ==
    /\ pc[p] = "loop"
    /\ pc' = [pc EXCEPT ![p] = "returned"]
    /\ exitCode' = [exitCode EXCEPT ![p] = "1"]
    /\ error' = [error EXCEPT ![p] = E_WIN32]
    /\ UNCHANGED << logger, fs, mutexHandles, singleton, classes, hwnd, subs,
                    queue, msg, remote, calls, cb, unitVars, histVars >>

\* GetMessageW returns -1 (an error): as_bool() is true, nothing was stored in
\* msg, and the loop body runs on the message msg still holds
run_error(p, lockOk, defRet) ==
    /\ pc[p] = "loop"
    /\ DispatchMessageW(p, msg[p], lockOk, defRet)
    /\ UNCHANGED << pc, logger, mutexHandles, singleton, classes, hwnd, subs,
                    queue, msg, remote, exitCode, error, calls, unitVars,
                    tracing >>

\* GetMessageW retrieves WM_QUIT and returns 0: run returns Ok(()), and so
\* does main
run_quit(p) ==
    /\ pc[p] = "loop"
    /\ queue[p] # <<>>
    /\ Head(queue[p]).message = WM_QUIT
    /\ msg' = [msg EXCEPT ![p] = Head(queue[p])]
    /\ queue' = [queue EXCEPT ![p] = Tail(@)]
    /\ pc' = [pc EXCEPT ![p] = "returned"]
    /\ exitCode' = [exitCode EXCEPT ![p] = ExitStatus("Ok")]
    /\ UNCHANGED << logger, fs, mutexHandles, singleton, classes, hwnd, subs,
                    remote, error, calls, cb, unitVars, histVars >>

(* ------------------------------------------------------------------ *)
(* The platform around the processes                                    *)
(* ------------------------------------------------------------------ *)
QuitMessage == Message(0, WM_QUIT, 0, PlainLParam(0))
UserMessage(h) == Message(h, WM_USER, 5, PlainLParam(9))
SettingMessage(h, g, d) ==
    Message(h, WM_POWERBROADCAST, PBT_POWERSETTINGCHANGE, SettingLParam(g, d))

\* the messages the platform can put in the queue of p's thread (the queue
\* exists once the thread has called into the window manager): a quit
\* message, messages to the window, and the notifications of the classes the
\* window is registered for
Postable(p) ==
    { QuitMessage }
    \cup (IF hwnd[p] = 0 THEN {} ELSE
          { UserMessage(hwnd[p]),
            Message(hwnd[p], WM_POWERBROADCAST, PBT_APMRESUMEAUTOMATIC, PlainLParam(0)) })
    \cup { SettingMessage(hwnd[p], g, d) :
             g \in subs[p], d \in { <<0, 0, 0, 0>>, <<1, 0, 0, 0>> } }

\* the few of them posted where several processes run side by side
FewPostable(p) ==
    { QuitMessage }
    \cup { SettingMessage(hwnd[p], g, <<0, 0, 0, 0>>) :
             g \in subs[p] \cap {GUID_LIDSWITCH_STATE_CHANGE} }

os_post(p, m, cap) ==
    /\ pc[p] \in {"run", "loop"}
    /\ Len(queue[p]) < cap
    /\ tracing => Len(hist[p].posted) < MaxPosted
    /\ queue' = [queue EXCEPT ![p] = Append(@, m)]
    /\ hist' = IF tracing THEN [hist EXCEPT ![p].posted = Append(@, m)] ELSE hist
    /\ UNCHANGED << pc, logger, fs, mutexHandles, singleton, classes, hwnd, subs,
                    msg, remote, exitCode, error, calls, cb, unitVars,
                    tracing >>

\* the session is connected to or disconnected from a remote display
os_session ==
    /\ remote' = ~remote
    /\ UNCHANGED << pc, logger, fs, mutexHandles, singleton, classes, hwnd, subs,
                    queue, msg, exitCode, error, calls, cb, unitVars,
                    histVars >>

\* what the platform reclaims when a process ends: its handles (the handle to
\* the named mutex among them), its window classes, window, subscriptions and
\* queue, its open log file, and its memory (its history ends with it)
Teardown(p) ==
    /\ mutexHandles' = mutexHandles \ {p}
    /\ singleton' = [singleton EXCEPT ![p] = FALSE]
    /\ classes' = [classes EXCEPT ![p] = {}]
    /\ hwnd' = [hwnd EXCEPT ![p] = 0]
    /\ subs' = [subs EXCEPT ![p] = {}]
    /\ queue' = [queue EXCEPT ![p] = <<>>]
    /\ msg' = [msg EXCEPT ![p] = MSG_default]
    /\ logger' = [logger EXCEPT ![p] = None]
    /\ calls' = [calls EXCEPT ![p] = <<>>]
    /\ cb' = [cb EXCEPT ![p] = None]
    /\ hist' = [hist EXCEPT ![p] = HistInit]
    /\ pc' = [pc EXCEPT ![p] = "exited"]

\* main has returned: the process exits with the status main's result gives
process_exit(p) ==
    /\ pc[p] = "returned"
    /\ Teardown(p)
    /\ UNCHANGED << fs, remote, exitCode, error, unitVars, tracing >>

\* the process is terminated from outside
os_terminate(p) ==
    /\ Alive(p)
    /\ Teardown(p)
    /\ exitCode' = [exitCode EXCEPT ![p] = "terminated"]
    /\ UNCHANGED << fs, remote, error, unitVars, tracing >>

(* ------------------------------------------------------------------ *)
(* Spec: the processes of the machine side by side.  The logger takes   *)
(* no part in any decision, so every process is started without         *)
(* arguments here; SpecAgent explores the argument lists.               *)
(* ------------------------------------------------------------------ *)
Next ==
    \/ \E p \in Procs : main_start(p, << APP_NAME >>, TRUE)
    \/ \E p \in Procs, createOk \in BOOLEAN : main_singleton(p, createOk)
    \/ \E p \in Procs, os \in OsOutcomes : main_window(p, os)
    \/ \E p \in Procs : run_enter(p)
    \/ \E p \in Procs, lockOk \in BOOLEAN, defRet \in {0, 1} : run_dispatch(p, lockOk, defRet)
    \/ \E p \in Procs, lockOk \in BOOLEAN, defRet \in {0, 1} : run_error(p, lockOk, defRet)
    \/ \E p \in Procs : run_quit(p)
    \/ \E p \in Procs : \E m \in FewPostable(p) : os_post(p, m, MaxBacklog)
    \/ os_session
    \/ \E p \in Procs : process_exit(p)
    \/ \E p \in Procs : os_terminate(p)

Spec == Init /\ [][Next]_vars

(* ------------------------------------------------------------------ *)
(* SpecAgent: one process on the machine, with every argument list and  *)
(* every message of Postable.                                           *)
(* ------------------------------------------------------------------ *)
NextAgent ==
    \/ \E args \in ArgLists, openOk \in BOOLEAN : main_start(1, args, openOk)
    \/ \E createOk \in BOOLEAN : main_singleton(1, createOk)
    \/ \E os \in OsOutcomes : main_window(1, os)
    \/ run_enter(1)
    \/ \E lockOk \in BOOLEAN, defRet \in {0, 1} : run_dispatch(1, lockOk, defRet)
    \/ \E lockOk \in BOOLEAN, defRet \in {0, 1} : run_error(1, lockOk, defRet)
    \/ run_quit(1)
    \/ \E m \in Postable(1) : os_post(1, m, MaxQueue)
    \/ os_session
    \/ process_exit(1)
    \/ os_terminate(1)

SpecAgent == Init /\ [][NextAgent]_vars

(* ------------------------------------------------------------------ *)
(* SpecLoop: one process started without arguments, with the history of *)
(* the messages posted to it and of the window procedure calls it made. *)
(* ------------------------------------------------------------------ *)
InitLoop ==
    /\ pc = [p \in Procs |-> "idle"]
    /\ logger = [p \in Procs |-> None]
    /\ fs = NoFiles
    /\ clock = 0
    /\ mutexHandles = {}
    /\ singleton = [p \in Procs |-> FALSE]
    /\ classes = [p \in Procs |-> {}]
    /\ hwnd = [p \in Procs |-> 0]
    /\ subs = [p \in Procs |-> {}]
    /\ queue = [p \in Procs |-> <<>>]
    /\ msg = [p \in Procs |-> MSG_default]
    /\ remote \in BOOLEAN
    /\ exitCode = [p \in Procs |-> "none"]
    /\ error = [p \in Procs |-> ""]
    /\ calls = [p \in Procs |-> <<>>]
    /\ cb = [p \in Procs |-> None]
    /\ lg = lgInit
    /\ atOpen = NoFiles
    /\ tracing = TRUE
    /\ hist = [p \in Procs |-> HistInit]

\* the messages posted there: a quit message, a message of another kind, a
\* lid-switch notification of state 0 and a monitor-power one of state 1
LoopPostable(p) ==
    { QuitMessage }
    \cup (IF hwnd[p] = 0 THEN {} ELSE { UserMessage(hwnd[p]) })
    \cup { SettingMessage(hwnd[p], g, <<0, 0, 0, 0>>) :
             g \in subs[p] \cap {GUID_LIDSWITCH_STATE_CHANGE} }
    \cup { SettingMessage(hwnd[p], g, <<1, 0, 0, 0>>) :
             g \in subs[p] \cap {GUID_MONITOR_POWER_ON} }

NextLoop ==
    \/ main_start(1, << APP_NAME >>, TRUE)
    \/ \E createOk \in BOOLEAN : main_singleton(1, createOk)
    \/ \E os \in OsOutcomes : main_window(1, os)
    \/ run_enter(1)
    \/ \E lockOk \in BOOLEAN, defRet \in {0, 1} : run_dispatch(1, lockOk, defRet)
    \/ \E lockOk \in BOOLEAN, defRet \in {0, 1} : run_error(1, lockOk, defRet)
    \/ run_quit(1)
    \/ \E m \in LoopPostable(1) : os_post(1, m, MaxQueue)
    \/ os_session
    \/ process_exit(1)
    \/ os_terminate(1)

SpecLoop == InitLoop /\ [][NextLoop]_vars

(* ------------------------------------------------------------------ *)
(* SpecCallback: window_proc on its own, called with every message of   *)
(* WideMessages, every session type and every result of the platform    *)
(* calls it makes.                                                      *)
(* ------------------------------------------------------------------ *)
\* data regions: every mix of the extreme bytes (all zero and the maximum
\* 0xFFFFFFFF among them), and the values 1 and 256
DataRegions ==
    { <<b1, b2, b3, b4>> : b1 \in Bytes, b2 \in Bytes, b3 \in Bytes, b4 \in Bytes }
    \cup { <<1, 0, 0, 0>>, <<0, 1, 0, 0>> }

WideMessages ==
    { Message(1, k, w, SettingLParam(g, d)) :
        k \in {WM_POWERBROADCAST, WM_USER},
        w \in {PBT_POWERSETTINGCHANGE, PBT_APMRESUMEAUTOMATIC},
        g \in {GUID_MONITOR_POWER_ON, GUID_LIDSWITCH_STATE_CHANGE},
        d \in DataRegions }
    \cup { Message(1, k, w, PlainLParam(9)) :
             k \in {WM_POWERBROADCAST, WM_USER, WM_QUIT},
             w \in {PBT_APMRESUMEAUTOMATIC, 0} }
    \cup { Message(1, k, PBT_POWERSETTINGCHANGE, PlainLParam(9)) :
             k \in {WM_USER, WM_QUIT} }

callback_call(m, lockOk, defRet) ==
    /\ LET r == window_proc(m, Env(lockOk, defRet), [files |-> fs, ops |-> 0])
       IN /\ cb' = [cb EXCEPT ![1] = Some(Outcome(m, Env(lockOk, defRet), r))]
          /\ fs' = r.io.files
    /\ UNCHANGED << pc, logger, mutexHandles, singleton, classes, hwnd, subs,
                    queue, msg, remote, exitCode, error, calls, unitVars,
                    histVars >>

NextCallback ==
    \/ \E m \in WideMessages, lockOk \in BOOLEAN, defRet \in {0, 1} :
           callback_call(m, lockOk, defRet)
    \/ os_session

SpecCallback == Init /\ [][NextCallback]_vars

(* ------------------------------------------------------------------ *)
(* SpecLogger: a Logger on its own, built from an argument list over    *)
(* files that may exist already, then called with the clock advancing   *)
(* and writes that may fail.                                            *)
(* ------------------------------------------------------------------ *)
OldLine == FormatLine(0, Text("Main started"))

InitialFiles ==
    { [p \in Paths |-> f] :
        f \in { [exists |-> FALSE, content |-> <<>>],
                [exists |-> TRUE, content |-> <<>>],
                [exists |-> TRUE, content |-> << OldLine >>] } }

LogMessages == { Text("Main started"), Text("Creating LidLockWindow") }

InitLogger ==
    /\ pc = [p \in Procs |-> "idle"]
    /\ logger = [p \in Procs |-> None]
    /\ fs \in InitialFiles
    /\ clock = 0
    /\ mutexHandles = {}
    /\ singleton = [p \in Procs |-> FALSE]
    /\ classes = [p \in Procs |-> {}]
    /\ hwnd = [p \in Procs |-> 0]
    /\ subs = [p \in Procs |-> {}]
    /\ queue = [p \in Procs |-> <<>>]
    /\ msg = [p \in Procs |-> MSG_default]
    /\ remote = FALSE
    /\ exitCode = [p \in Procs |-> "none"]
    /\ error = [p \in Procs |-> ""]
    /\ calls = [p \in Procs |-> <<>>]
    /\ cb = [p \in Procs |-> None]
    /\ lg = lgInit
    /\ atOpen = fs
    /\ tracing = FALSE
    /\ hist = [p \in Procs |-> HistInit]

sysVars == << pc, logger, mutexHandles, singleton, classes, hwnd, subs, queue,
              msg, remote, exitCode, error, calls, cb, tracing, hist >>

\* let logger = Logger::new(...) with the path main resolves from args
logger_new(args, openOk) ==
    /\ ~lg.built
    /\ LET l == Logger_new(LoggerPath(args), openOk, [files |-> fs, ops |-> 0])
       IN /\ lg' = [built |-> TRUE, path |-> LoggerPath(args), file |-> l.file,
                    made |-> <<>>, ops |-> l.io.ops]
          /\ fs' = l.io.files
    /\ atOpen' = fs
    /\ UNCHANGED << clock, sysVars >>

\* logger.log(message)
logger_log(message, wr) ==
    /\ lg.built
    /\ Len(lg.made) < MaxLogCalls
    /\ LET io == Logger_log(lg.file, message, clock, wr, [files |-> fs, ops |-> lg.ops])
       IN /\ fs' = io.files
          /\ lg' = [lg EXCEPT !.made = Append(@, [message |-> message,
                                                  stamp |-> clock, wr |-> wr]),
                              !.ops = io.ops]
    /\ UNCHANGED << atOpen, clock, sysVars >>

tick ==
    /\ clock < MaxClock
    /\ clock' = clock + 1
    /\ UNCHANGED << fs, lg, atOpen, sysVars >>

NextLogger ==
    \/ \E args \in ArgLists, openOk \in BOOLEAN : logger_new(args, openOk)
    \/ \E message \in LogMessages, wr \in BOOLEAN : logger_log(message, wr)
    \/ tick

SpecLogger == InitLogger /\ [][NextLogger]_vars

(* ------------------------------------------------------------------ *)
(* Properties                                                           *)
(* ------------------------------------------------------------------ *)
Called(p) == cb[p] # None
Last(p) == cb[p][1]
BothClasses == {GUID_MONITOR_POWER_ON, GUID_LIDSWITCH_STATE_CHANGE}
Made(p, call) == \E i \in 1..Len(calls[p]) : calls[p][i] = call

\* C1: for every message handed to the callback, whatever 32-bit state it
\* carries and whatever the session type, LockWorkStation is called (once)
\* exactly when the message is a power broadcast of subtype "setting
\* changed" whose state is 0 and the session is not remote.
C1_LockIff ==
    \A p \in Procs : Called(p) =>
        /\ Last(p).locks \in {0, 1}
        /\ Last(p).locks = 1 <=>
              /\ IsSettingChange(Last(p).msg)
              /\ CarriesZero(Last(p).msg)
              /\ ~Last(p).remote

\* a call that locked
C1_Witness == Called(1) /\ Last(1).locks = 1

\* C2: at most one process is past the singleton acquisition and alive, and
\* such a process holds its handle to the named mutex for as long as it is in
\* the window construction or the dispatch loop.
Acquired(p) == pc[p] \in {"window", "run", "loop"}

C2_OneInstance ==
    /\ Cardinality({p \in Procs : Acquired(p)}) <= 1
    /\ \A p \in Procs : Acquired(p) => singleton[p] /\ p \in mutexHandles

\* one process in its dispatch loop while another was turned away
C2_Witness ==
    \E p, q \in Procs : pc[p] = "loop" /\ pc[q] = "returned"
                        /\ error[q] = E_ALREADY_EXISTS

\* p runs SingletonHandle::new in this step
Attempt(p) == pc[p] = "singleton" /\ pc'[p] \in {"window", "returned"}
HeldByOther(p) == \E q \in Procs \ {p} : singleton[q]

\* C3: an attempt made while another process holds the singleton always
\* fails with the "already exists" error, never with another error and never
\* with success.
C3_AlwaysAlreadyRunning ==
    [][\A p \in Procs : Attempt(p) /\ HeldByOther(p) =>
          pc'[p] = "returned" /\ error'[p] = E_ALREADY_EXISTS]_vars

\* What does hold of such an attempt: it never succeeds; it fails with the
\* "already exists" error when CreateMutexW returned a handle and with the
\* platform's error when CreateMutexW itself failed; and an attempt in which
\* CreateMutexW fails always ends with the platform's error.
SecondAttemptFails ==
    [][\A p \in Procs : Attempt(p) =>
          /\ HeldByOther(p) =>
                /\ pc'[p] = "returned" /\ exitCode'[p] = "1"
                /\ p \in mutexHandles' => error'[p] = E_ALREADY_EXISTS
          /\ p \notin mutexHandles' =>
                pc'[p] = "returned" /\ error'[p] = E_WIN32
                /\ error'[p] # E_ALREADY_EXISTS]_vars

\* a process turned away while the holder is alive
TurnedAway ==
    \E p, q \in Procs : singleton[q] /\ pc[p] = "returned"
                        /\ error[p] = E_ALREADY_EXISTS

\* C4: a window whose two registrations did not both succeed belongs to a
\* process whose main has returned an error without entering the dispatch
\* loop; a process at or in the loop has both registrations.
C4_AllOrNothing ==
    \A p \in Procs :
        /\ hwnd[p] # 0 /\ subs[p] # BothClasses =>
              /\ pc[p] = "returned"
              /\ exitCode[p] = "1" /\ error[p] = E_WIN32
              /\ ~Made(p, "GetMessageW")
        /\ pc[p] \in {"run", "loop"} => subs[p] = BothClasses

\* the first registration made, the second failed
C4_Witness ==
    \E p \in Procs : subs[p] = {GUID_MONITOR_POWER_ON} /\ pc[p] = "returned"

\* C5: a message that is no power broadcast goes to DefWindowProcW as it
\* came (handle, kind, both parameters), the callback returns what
\* DefWindowProcW returned, and the call decodes nothing, does not ask for
\* the session type, does not lock and logs nothing.
C5_Forwarded ==
    \A p \in Procs : Called(p) /\ Last(p).msg.message # WM_POWERBROADCAST =>
        /\ Last(p).def = Some(Last(p).msg)
        /\ Last(p).defResult # None /\ Last(p).ret = Last(p).defResult[1]
        /\ Last(p).decoded = None
        /\ ~Last(p).queried
        /\ Last(p).locks = 0
        /\ Last(p).logs = <<>>
        /\ Last(p).ops = 0

\* a forwarded message whose result is not the "handled" code
C5_Witness ==
    /\ Called(1) /\ Last(1).msg.message = WM_USER
    /\ Last(1).msg.wParam = PBT_POWERSETTINGCHANGE
    /\ Last(1).ret = 1

\* the lines of the log file of p's logger
LogOf(p) == fs[logger[p][1]].content
Logged(p, t) == \E i \in 1..Len(LogOf(p)) : LogOf(p)[i].message = Text(t)
LoggedInOrder(p, t, u) ==
    \E i, j \in 1..Len(LogOf(p)) :
        i < j /\ LogOf(p)[i].message = Text(t) /\ LogOf(p)[j].message = Text(u)

\* C6 as stated: with a log file configured, once a "setting changed" message
\* has been processed the log file holds the lines of the branch taken: the
\* attempt followed by the line for the result of LockWorkStation, or the
\* remote-session line, or the non-zero-state line.
C6_BranchLogged ==
    \A p \in Procs :
        logger[p] # None /\ Called(p) /\ IsSettingChange(Last(p).msg) =>
            IF CarriesZero(Last(p).msg)
            THEN IF ~Last(p).remote
                 THEN LoggedInOrder(p, "Attempting to lock workstation",
                                    IF Last(p).lockOk
                                    THEN "Workstation locked successfully"
                                    ELSE "Failed to lock workstation")
                 ELSE Logged(p, "Ignoring, session is remote")
            ELSE Logged(p, "Ignoring non-zero state")

\* C7: a process whose main returned before the dispatch loop was entered
\* ends with status 1 and an error; status 0 is given only by a main that
\* entered the loop and left it on WM_QUIT; and no startup call is made
\* twice.
C7_ExitStatus ==
    \A p \in Procs :
        /\ pc[p] = "returned" => exitCode[p] \in {"0", "1"}
        /\ pc[p] = "returned" /\ ~Made(p, "GetMessageW") =>
              exitCode[p] = "1" /\ error[p] \in {E_ALREADY_EXISTS, E_WIN32}
        /\ error[p] # "" => exitCode[p] = "1"
        /\ exitCode[p] = "0" =>
              /\ pc[p] \in {"returned", "exited"}
              /\ error[p] = ""
              /\ pc[p] = "returned" =>
                    Made(p, "GetMessageW") /\ msg[p].message = WM_QUIT
        /\ \A i, j \in 1..Len(calls[p]) : i < j => calls[p][i] # calls[p][j]

\* one process ended on a failed window construction, another on WM_QUIT
C7_Witness ==
    \E p, q \in Procs :
        /\ exitCode[p] = "1" /\ error[p] = E_WIN32
        /\ exitCode[q] = "0" /\ pc[q] = "returned"

\* C8: a logger built without a path performs no filesystem operation and
\* leaves every file as it was, whatever log calls are made on it.
C8_NoPathNoFiles ==
    lg.built /\ lg.path = None => lg.ops = 0 /\ fs = atOpen

\* such a logger after two log calls
C8_Witness == lg.built /\ lg.path = None /\ Len(lg.made) >= 2

Wrote(call) == call.wr
LinesOf(made) == [i \in 1..Len(made) |-> FormatLine(made[i].stamp, made[i].message)]

\* C9 as stated: for a logger built with a path, the file holds, after what
\* it held before, exactly one line per log call made, in call order.
C9_Original ==
    lg.built /\ lg.path # None =>
        fs[lg.path[1]].content =
            atOpen[lg.path[1]].content \o LinesOf(lg.made)

\* C9 amended: for a logger whose file was opened, the file holds what it
\* held when it was opened followed by one newline-terminated line for each
\* log call whose write succeeded, in call order (a call whose write fails
\* adds nothing); a logger whose open failed changes no file.
C9_Appended ==
    /\ lg.built /\ lg.file # None =>
          /\ lg.file = lg.path
          /\ fs[lg.file[1]].content =
                atOpen[lg.file[1]].content \o LinesOf(SelectSeq(lg.made, Wrote))
          /\ \A i \in 1..Len(fs[lg.file[1]].content) :
                fs[lg.file[1]].content[i].newline
          /\ \A q \in Paths \ {lg.file[1]} : fs[q] = atOpen[q]
    /\ lg.built /\ lg.file = None => fs = atOpen

\* a file that held a line already, then two written lines and a failed write
C9_Witness ==
    /\ lg.built /\ lg.file # None
    /\ atOpen[lg.file[1]].content # <<>>
    /\ Len(SelectSeq(lg.made, Wrote)) >= 2
    /\ Len(lg.made) > Len(SelectSeq(lg.made, Wrote))

StartupOrder ==
    << "CreateMutexW", "GetModuleHandleW", "RegisterClassExW", "CreateWindowExW",
       "RegisterPowerSettingNotification(GUID_MONITOR_POWER_ON)",
       "RegisterPowerSettingNotification(GUID_LIDSWITCH_STATE_CHANGE)",
       "GetMessageW" >>
IsPrefix(a, b) == Len(a) <= Len(b) /\ \A i \in 1..Len(a) : a[i] = b[i]

\* C10: the platform calls of a process are made in the startup order, each
\* only after the one before it succeeded: the class after the singleton,
\* the window after the class, the registrations after the window, the loop
\* after both registrations; a process turned away at the singleton has made
\* no other call and owns no class, window or registration.
C10_StartupOrder ==
    \A p \in Procs : pc[p] # "exited" =>
        /\ IsPrefix(calls[p], StartupOrder)
        /\ Len(calls[p]) >= 2 => singleton[p] /\ p \in mutexHandles
        /\ Made(p, "CreateWindowExW") => classes[p] # {}
        /\ Made(p, "RegisterPowerSettingNotification(GUID_MONITOR_POWER_ON)") =>
              hwnd[p] # 0
        /\ Made(p, "RegisterPowerSettingNotification(GUID_LIDSWITCH_STATE_CHANGE)") =>
              GUID_MONITOR_POWER_ON \in subs[p]
        /\ Made(p, "GetMessageW") => subs[p] = BothClasses /\ hwnd[p] # 0
        /\ pc[p] = "loop" => calls[p] = StartupOrder
        /\ ~singleton[p] =>
              /\ Len(calls[p]) <= 1
              /\ classes[p] = {} /\ hwnd[p] = 0 /\ subs[p] = {}
              /\ pc[p] \notin {"window", "run", "loop"}

\* one process in its loop after the whole startup, another turned away
C10_Witness ==
    \E p, q \in Procs :
        /\ pc[p] = "loop" /\ calls[p] = StartupOrder
        /\ pc[q] = "returned" /\ error[q] = E_ALREADY_EXISTS
        /\ calls[q] = << "CreateMutexW" >>

\* main returned the error of a failed RegisterClassExW or CreateWindowExW
ConstructionFailed(p) ==
    /\ pc[p] = "returned" /\ error[p] = E_WIN32
    /\ Made(p, "RegisterClassExW")
    /\ ~Made(p, "RegisterPowerSettingNotification(GUID_MONITOR_POWER_ON)")

\* C11 as stated: after a failed class registration or a failed window
\* creation the process has no window class registered, no window and no
\* registration for notifications.
C11_NoSideEffects ==
    \A p \in Procs : ConstructionFailed(p) =>
        classes[p] = {} /\ hwnd[p] = 0 /\ subs[p] = {}

\* What does hold then: no window and no registration exist, a failed
\* RegisterClassExW leaves no class, and a failed CreateWindowExW leaves the
\* class RegisterClassExW registered.
ConstructionLeavesClass ==
    \A p \in Procs : ConstructionFailed(p) =>
        /\ hwnd[p] = 0 /\ subs[p] = {}
        /\ classes[p] # {} <=> Made(p, "CreateWindowExW")

\* the window procedure calls of p so far, in order
CalledIn(p) == hist[p].called
Qualifies(m, rem) == IsSettingChange(m) /\ CarriesZero(m) /\ ~rem
Qualifying(p) ==
    {i \in 1..Len(CalledIn(p)) : Qualifies(CalledIn(p)[i].msg, CalledIn(p)[i].remote)}
RECURSIVE LockCalls(_)
LockCalls(called) ==
    IF called = <<>> THEN 0 ELSE Head(called).locks + LockCalls(Tail(called))

\* C12: over every sequence of window procedure calls, each call locks (once)
\* exactly when its own message is a "setting changed" power broadcast of
\* state 0 and the session is not remote at that moment, whatever the calls
\* before it were, so the number of LockWorkStation calls made equals the
\* number of such messages handed to the window procedure.
C12_Stateless ==
    \A p \in Procs :
        /\ \A i \in 1..Len(CalledIn(p)) :
              CalledIn(p)[i].locks = IF i \in Qualifying(p) THEN 1 ELSE 0
        /\ LockCalls(CalledIn(p)) = Cardinality(Qualifying(p))

\* the same qualifying message handed over twice in a row and locking both
\* times, after a call that did not lock
C12_Witness ==
    \E i \in 1..Len(CalledIn(1)) :
        /\ i + 2 <= Len(CalledIn(1))
        /\ CalledIn(1)[i].locks = 0
        /\ CalledIn(1)[i + 1].locks = 1 /\ CalledIn(1)[i + 2].locks = 1
        /\ CalledIn(1)[i + 1].msg = CalledIn(1)[i + 2].msg

\* p's window procedure runs in this step and its LockWorkStation call fails
LockFails(p) ==
    /\ Len(hist'[p].called) = Len(hist[p].called) + 1
    /\ cb'[p] # None /\ cb'[p][1].locks > 0 /\ ~cb'[p][1].lockOk

\* C13: a window procedure call whose LockWorkStation call fails makes that
\* one call only, returns the "handled" result and changes nothing else: the
\* process stays in its loop with no exit status and no error, the message
\* is consumed like any other, and window, registrations, session and files
\* are as before, so the messages after it are handled as after any call.
C13_LockFailureAbsorbed ==
    [][\A p \in Procs : LockFails(p) =>
          /\ cb'[p][1].locks = 1
          /\ cb'[p][1].ret = LRESULT_HANDLED
          /\ pc[p] = "loop" /\ pc'[p] = "loop"
          /\ exitCode'[p] = "none" /\ error'[p] = ""
          /\ \/ queue'[p] = queue[p]
             \/ queue[p] # <<>> /\ queue'[p] = Tail(queue[p])
          /\ msg'[p] = cb'[p][1].msg
          /\ UNCHANGED << hwnd, subs, classes, mutexHandles, singleton, remote,
                          fs, calls, logger >>]_vars

\* a failed lock followed by a later call that locked
C13_Witness ==
    \E i, j \in 1..Len(CalledIn(1)) :
        /\ i < j /\ pc[1] = "loop"
        /\ CalledIn(1)[i].locks = 1 /\ ~CalledIn(1)[i].lockOk
        /\ CalledIn(1)[j].locks = 1 /\ CalledIn(1)[j].lockOk

NonQuit(m) == m.message # WM_QUIT
MsgsOf(called) == [i \in 1..Len(called) |-> called[i].msg]

\* C14 as stated: while a process is in its loop, the messages handed to the
\* window procedure so far, followed by those still waiting, are the
\* messages posted, in the order they were posted: each one dispatched once,
\* none skipped, none out of order.
C14_InOrderOnce ==
    \A p \in Procs : pc[p] \in {"run", "loop"} =>
        SelectSeq(hist[p].posted, NonQuit) =
            MsgsOf(CalledIn(p)) \o SelectSeq(queue[p], NonQuit)

\* What does hold: a window procedure call is made either for the message at
\* the head of the queue, which is removed by the same step, or, with the
\* queue untouched, for the message the loop's MSG still holds from the
\* retrieval before.
DispatchesHeadOrStale ==
    [][\A p \in Procs : Len(hist'[p].called) = Len(hist[p].called) + 1 =>
          LET m == hist'[p].called[Len(hist'[p].called)].msg
          IN \/ /\ queue[p] # <<>> /\ m = Head(queue[p])
                /\ queue'[p] = Tail(queue[p])
             \/ /\ queue'[p] = queue[p] /\ m = msg[p] /\ msg'[p] = msg[p]]_vars

\* C15: a process leaves its loop for the return of main only in a step
\* that retrieves WM_QUIT, and main then returns Ok (status 0, no error);
\* every other step taken in the loop (a message of any content dispatched,
\* a callback with any outcome, GetMessageW failing with -1) leaves it in the
\* loop unless the process is terminated from outside; and no step of the
\* program puts a message in a queue: a queue grows only while the program
\* stands still.
C15_ReturnsOnlyOnQuit ==
    [][\A p \in Procs :
          /\ pc[p] = "loop" /\ pc'[p] = "returned" =>
                /\ queue[p] # <<>> /\ Head(queue[p]).message = WM_QUIT
                /\ msg'[p].message = WM_QUIT
                /\ exitCode'[p] = "0" /\ error'[p] = ""
          /\ pc[p] = "loop" /\ pc'[p] \notin {"loop", "returned"} =>
                pc'[p] = "exited" /\ exitCode'[p] = "terminated"
          /\ pc[p] = "loop" /\ hist'[p].called # hist[p].called /\ Alive(p)' =>
                pc'[p] = "loop"
          /\ Len(queue'[p]) > Len(queue[p]) =>
                /\ pc' = pc /\ msg' = msg /\ cb' = cb /\ calls' = calls
                /\ hist'[p].called = hist[p].called]_vars

\* main returned Ok on WM_QUIT after its loop had dispatched more often than
\* messages were posted (GetMessageW had failed) and a lock had failed
C15_Witness ==
    /\ pc[1] = "returned" /\ exitCode[1] = "0"
    /\ Len(CalledIn(1)) > Len(SelectSeq(hist[1].posted, NonQuit))
    /\ \E i \in 1..Len(CalledIn(1)) :
          CalledIn(1)[i].locks = 1 /\ ~CalledIn(1)[i].lockOk

\* C16: every call for a power-broadcast message returns LRESULT(0) and
\* hands nothing to DefWindowProcW, whichever branch it takes: another
\* subtype, a lock that succeeded, a lock that failed, a remote session, a
\* state other than 0; and whatever DefWindowProcW would have returned.
C16_FixedResult ==
    \A p \in Procs : Called(p) /\ Last(p).msg.message = WM_POWERBROADCAST =>
        /\ Last(p).ret = LRESULT_HANDLED
        /\ Last(p).def = None /\ Last(p).defResult = None

\* the branches of the power-broadcast arm, as the last call shows them
Branch(p) ==
    IF ~IsSettingChange(Last(p).msg) THEN "other subtype"
    ELSE IF ~CarriesZero(Last(p).msg) THEN "non-zero state"
    ELSE IF Last(p).remote THEN "remote"
    ELSE IF Last(p).lockOk THEN "locked" ELSE "lock failed"

\* a call that took the failed-lock branch
C16_Witness ==
    /\ Called(1) /\ Last(1).msg.message = WM_POWERBROADCAST
    /\ Branch(1) = "lock failed" /\ Last(1).locks = 1

\* C17: a window procedure call for a "setting changed" message of state 0
\* asks for the session type in that call and locks exactly when the session
\* is not remote at that moment, whatever the session type was at the calls
\* before it.
C17_FreshSession ==
    [][\A p \in Procs :
          /\ Len(hist'[p].called) = Len(hist[p].called) + 1
          /\ IsSettingChange(cb'[p][1].msg) /\ CarriesZero(cb'[p][1].msg)
          => /\ cb'[p][1].queried
             /\ cb'[p][1].locks = IF remote THEN 0 ELSE 1
             /\ cb'[p][1].remote = remote /\ remote' = remote]_vars

\* two state-0 messages in a row with the session changed in between: one
\* locked, the other was ignored
C17_Witness ==
    \E i \in 1..Len(CalledIn(1)) :
        /\ i + 1 <= Len(CalledIn(1))
        /\ CarriesZero(CalledIn(1)[i].msg) /\ CarriesZero(CalledIn(1)[i + 1].msg)
        /\ CalledIn(1)[i].remote /\ CalledIn(1)[i].locks = 0
        /\ ~CalledIn(1)[i + 1].remote /\ CalledIn(1)[i + 1].locks = 1

ClassOf(m) == m.lParam.pointee[1].PowerSetting
\* the same message as a notification of the other class
SwapClass(m) ==
    [m EXCEPT !.lParam.pointee =
        Some([@[1] EXCEPT !.PowerSetting =
                 IF @ = GUID_MONITOR_POWER_ON THEN GUID_LIDSWITCH_STATE_CHANGE
                 ELSE GUID_MONITOR_POWER_ON])]

\* C18: what a call does for a "setting changed" message (result, decoded
\* state, session query, LockWorkStation calls, log calls) is what it would
\* do, in the same session and with the same result of LockWorkStation, for
\* the message carrying the same data as a notification of the other class;
\* and a monitor-power message of state 0 in a non-remote session locks.
C18_ClassBlind ==
    \A p \in Procs :
        Called(p) /\ IsSettingChange(Last(p).msg)
                  /\ Last(p).msg.lParam.pointee # None =>
            /\ \E lockOk \in BOOLEAN :
                  LET env == [remote |-> Last(p).remote, lockOk |-> lockOk,
                              defRet |-> 0, now |-> clock]
                      r == window_proc(SwapClass(Last(p).msg), env,
                                       [files |-> fs, ops |-> 0])
                  IN /\ r.ret = Last(p).ret
                     /\ r.locks = Last(p).locks /\ r.lockOk = Last(p).lockOk
                     /\ r.decoded = Last(p).decoded
                     /\ r.queried = Last(p).queried
                     /\ r.logs = Last(p).logs
            /\ ClassOf(Last(p).msg) = GUID_MONITOR_POWER_ON
                  /\ CarriesZero(Last(p).msg) /\ ~Last(p).remote =>
                      Last(p).locks = 1

\* a monitor-power message of state 0 that locked
C18_Witness ==
    /\ Called(1) /\ IsSettingChange(Last(1).msg)
    /\ Last(1).msg.lParam.pointee # None
    /\ ClassOf(Last(1).msg) = GUID_MONITOR_POWER_ON
    /\ CarriesZero(Last(1).msg) /\ Last(1).locks = 1

Rejected(p) == pc[p] = "returned" /\ error[p] = E_ALREADY_EXISTS
\* q is alive and holds a handle to the named mutex
HoldsHandle(q) ==
    q \in mutexHandles /\ pc[q] \in {"window", "run", "loop", "returned"}

\* C19 as stated: an attempt that ends with the "already exists" error is
\* made while a process that acquired the singleton is alive (in its startup,
\* in its loop, or returning from main), and an attempt
\* made when every other process is not started or has exited succeeds
\* (when CreateMutexW returns a handle).
C19_AcquirerAlive ==
    [][\A p \in Procs : Attempt(p) =>
          /\ Rejected(p)' => \E q \in Procs \ {p} : singleton[q]
          /\ (\A q \in Procs \ {p} : pc[q] \in {"idle", "exited"})
                /\ p \in mutexHandles' => pc'[p] = "window"]_vars

\* C19 amended: an attempt that ends with the "already exists" error is made
\* while another live process holds a handle to the named mutex: one that
\* acquired the singleton, or one that was turned away itself and has not
\* exited yet.  In an attempt in which CreateMutexW returns a handle, the
\* process is turned away exactly when such a holder exists and acquires the
\* singleton otherwise, so an attempt made when every other process is not
\* started or has exited succeeds.
C19_HolderAlive ==
    [][\A p \in Procs : Attempt(p) =>
          /\ Rejected(p)' => \E q \in Procs \ {p} : HoldsHandle(q)
          /\ p \in mutexHandles' =>
                /\ Rejected(p)' <=> \E q \in Procs \ {p} : HoldsHandle(q)
                /\ pc'[p] = "window" <=> ~\E q \in Procs \ {p} : HoldsHandle(q)
          /\ (\A q \in Procs \ {p} : pc[q] \in {"idle", "exited"})
                /\ p \in mutexHandles' => pc'[p] = "window"
          /\ hist'[p].orphan => Rejected(p)']_vars

\* a process turned away although no process that had acquired the
\* singleton was alive: the mutex was kept by a process turned away before
C19_Witness ==
    \E p, q \in Procs :
        /\ p # q /\ Rejected(p) /\ hist[p].orphan
        /\ Rejected(q) /\ ~hist[q].orphan
        /\ \A r \in Procs : ~singleton[r]

====
